---------------------------- MODULE Spec2Model ----------------------------
(***************************************************************************)
(* Model of mcp-rando-server: the secure random helpers (utils/crypto),    *)
(* the diceware helpers (utils/diceware) and the diceware-passphrase tool  *)
(* handler (tools/diceware.ts).                                            *)
(*                                                                         *)
(* A JavaScript string is a sequence of one-character strings, so that     *)
(* trim, split, join, charAt, slice and toUpperCase are computed, not      *)
(* assumed.  File names and the fixed parts of message templates are kept  *)
(* as atoms.                                                               *)
(***************************************************************************)
EXTENDS Integers, Sequences, FiniteSets

VARIABLES
    pc,               \* position of the diceware-passphrase handler
    args,             \* its arguments {words, wordlist, capitalize}
    file,             \* what readFileSync found for this invocation
    wordMap,          \* handler local: const wordMap
    loopI,            \* handler local: the loop counter i
    draws,            \* secureRandomInt calls made by this invocation
    diceCount,        \* handler local: const diceCount
    passphraseWords,  \* handler local: passphraseWords[]
    diceRolls,        \* handler local: diceRolls[]
    result,           \* the CallToolResult returned
    call,             \* a direct call of a utility function: fn, args, ret
    slots,            \* the locals of each invocation in progress, by request
    response          \* the last result handed to a caller, with its inputs

vars == <<pc, args, file, wordMap, loopI, draws, diceCount, passphraseWords,
          diceRolls, result, call, slots, response>>

handlerVars == <<pc, args, file, wordMap, loopI, draws, diceCount,
                 passphraseWords, diceRolls, result>>

-----------------------------------------------------------------------------
(* Bounds of the model *)

\* longest file content enumerated for direct loadWordlist calls
MaxContentLen == 7

\* largest numDice of a direct generateDiceRolls call
MaxDice == 3

\* direct secureRandomInt calls take min and max in -MaxAbsInt..MaxAbsInt
MaxAbsInt == 3

\* largest word count of a diceware-passphrase invocation
MaxWords == 2

-----------------------------------------------------------------------------
(* Characters and JavaScript string primitives *)

TAB == "\t"
NL == "\n"
SPACE == " "

\* the white space String.prototype.trim strips, within the model's alphabet
WhiteSpace == {SPACE, TAB, NL, "\r"}

RECURSIVE trimStart(_)
trimStart(s) ==
    IF s # <<>> /\ Head(s) \in WhiteSpace THEN trimStart(Tail(s)) ELSE s

RECURSIVE trimEnd(_)
trimEnd(s) ==
    IF s # <<>> /\ s[Len(s)] \in WhiteSpace
    THEN trimEnd(SubSeq(s, 1, Len(s) - 1))
    ELSE s

\* String.prototype.trim
trim(s) == trimEnd(trimStart(s))

\* String.prototype.split with a one-character separator:
\* "".split(sep) is [""], and n separators give n + 1 fields
RECURSIVE split(_, _)
split(s, sep) ==
    IF \A i \in 1..Len(s) : s[i] # sep
    THEN <<s>>
    ELSE LET i == CHOOSE j \in 1..Len(s) :
                      s[j] = sep /\ \A k \in 1..(j - 1) : s[k] # sep
         IN  <<SubSeq(s, 1, i - 1)>> \o split(SubSeq(s, i + 1, Len(s)), sep)

\* Array.prototype.join of an array of strings; sep is a string
RECURSIVE join(_, _)
join(arr, sep) ==
    IF arr = <<>> THEN <<>>
    ELSE IF Len(arr) = 1 THEN arr[1]
    ELSE arr[1] \o sep \o join(Tail(arr), sep)

\* String.prototype.charAt: the empty string when out of range
charAt(s, i) == IF i + 1 \in 1..Len(s) THEN <<s[i + 1]>> ELSE <<>>

\* String.prototype.slice(start) for start >= 0
slice(s, start) == SubSeq(s, start + 1, Len(s))

LowerCase == <<"a", "b", "c", "d", "e", "f">>
UpperCase == <<"A", "B", "C", "D", "E", "F">>

\* toUpperCase of one character: letters change, everything else is kept
UpperChar(c) ==
    IF \E k \in DOMAIN LowerCase : LowerCase[k] = c
    THEN UpperCase[CHOOSE k \in DOMAIN LowerCase : LowerCase[k] = c]
    ELSE c

\* String.prototype.toUpperCase
toUpperCase(s) == [k \in 1..Len(s) |-> UpperChar(s[k])]

DecimalDigits == <<"0", "1", "2", "3", "4", "5", "6", "7", "8", "9">>

\* Number.prototype.toString of an integer, radix 10
RECURSIVE toString(_)
toString(n) ==
    IF n < 0 THEN <<"-">> \o toString(-n)
    ELSE IF n < 10 THEN <<DecimalDigits[n + 1]>>
    ELSE toString(n \div 10) \o <<DecimalDigits[(n % 10) + 1]>>

-----------------------------------------------------------------------------
(* utils/crypto *)

\* node:crypto randomInt(min, max): the values it can return, min <= n < max
\* (none when max <= min: it throws ERR_OUT_OF_RANGE)
randomInt(min, max) == {n \in min..(max - 1) : TRUE}

secureRandomInt_fixed(min, max) == {n \in randomInt(min, max + 1) : n = min}

secureRandomInt_pastMax(min, max) == randomInt(min, max + 2)

secureRandomInt_exclusiveMax(min, max) == randomInt(min, max)

\* the values secureRandomInt(min, max) can return
secureRandomInt(min, max) == randomInt(min, max + 1)

\* a 32-bit unsigned integer, kept as two 16-bit halves (its value is
\* hi * 65536 + lo, beyond the integers of the checker)
U32(hi, lo) == [hi |-> hi, lo |-> lo]

U32Less(a, b) == a.hi < b.hi \/ (a.hi = b.hi /\ a.lo < b.lo)

\* Buffer.readUInt32BE(0) of a buffer of four bytes
readUInt32BE(buf) == U32(buf[1] * 256 + buf[2], buf[3] * 256 + buf[4])

\* the divisor 0xFFFFFFFF
MaxU32 == U32(65535, 65535)

\* secureRandomFloat, given the four bytes randomBytes(4) returned: the
\* value min + (num / den) * span, kept exact
secureRandomFloat(min, max, buf) ==
    [min |-> min, span |-> max - min, num |-> readUInt32BE(buf),
     den |-> MaxU32]

\* a JavaScript heap of arrays: a reference is an index into it
NewArray(heap, elems) == [heap |-> Append(heap, elems), ref |-> Len(heap) + 1]

SpreadCopy_alias(heap, ref) == [heap |-> heap, ref |-> ref]

\* [...array]: a new array with the elements of the one at ref
SpreadCopy(heap, ref) == NewArray(heap, heap[ref])

Swap_overwrite(arr, i, j) ==
    LET first == [arr EXCEPT ![i + 1] = arr[j + 1]]
    IN  [first EXCEPT ![j + 1] = first[i + 1]]

\* [arr[i], arr[j]] = [arr[j], arr[i]], indices counted from 0
Swap(arr, i, j) == [arr EXCEPT ![i + 1] = arr[j + 1], ![j + 1] = arr[i + 1]]

\* the for loop of secureArrayShuffle from index i down to 1, the draws ds
\* standing for the successive results of secureRandomInt(0, i)
RECURSIVE ShuffleLoop(_, _, _, _, _)
ShuffleLoop(i, heap, ref, ds, used) ==
    IF i > 0
    THEN IF used + 1 > Len(ds) \/ ds[used + 1] \notin secureRandomInt(0, i)
         THEN [heap |-> heap, ref |-> ref, used |-> used, starved |-> TRUE]
         ELSE ShuffleLoop(i - 1,
                          [heap EXCEPT ![ref] = Swap(heap[ref], i, ds[used + 1])],
                          ref, ds, used + 1)
    ELSE [heap |-> heap, ref |-> ref, used |-> used, starved |-> FALSE]

secureArrayShuffle_skipLast(heap, ref, ds) ==
    LET shuffled == SpreadCopy(heap, ref)
    IN  ShuffleLoop(Len(shuffled.heap[shuffled.ref]) - 2, shuffled.heap,
                    shuffled.ref, ds, 0)

\* secureArrayShuffle on the array at ref: the heap afterwards and the
\* reference returned
secureArrayShuffle(heap, ref, ds) ==
    LET shuffled == SpreadCopy(heap, ref)
    IN  ShuffleLoop(Len(shuffled.heap[shuffled.ref]) - 1, shuffled.heap,
                    shuffled.ref, ds, 0)

\* the draw sequences that a shuffle of n elements consumes exactly
ShuffleDraws(n) ==
    {ds \in UNION {[1..k -> 0..(n - 1)] : k \in 0..n} :
        LET r == secureArrayShuffle(<<[k \in 1..n |-> "x"]>>, 1, ds)
        IN  ~r.starved /\ r.used = Len(ds)}

\* array[index] of JavaScript, index counted from 0
ArrayGet(arr, index) ==
    IF index + 1 \in DOMAIN arr
    THEN [defined |-> TRUE, value |-> arr[index + 1]]
    ELSE [defined |-> FALSE, value |-> ""]

secureRandomChoice_pastEnd(array) ==
    {[draws |-> 1, index |-> index, element |-> ArrayGet(array, index)] :
        index \in secureRandomInt(0, Len(array))}

\* secureRandomChoice: its possible outcomes, one per value of the draw;
\* none when secureRandomInt throws
secureRandomChoice(array) ==
    {[draws |-> 1, index |-> index, element |-> ArrayGet(array, index)] :
        index \in secureRandomInt(0, Len(array) - 1)}

-----------------------------------------------------------------------------
(* utils/diceware: generateDiceRolls *)

\* the for loop of generateDiceRolls; ds are the values the successive
\* secureRandomInt(1, 6) calls return.  used counts the calls made; starved
\* says the loop asked for a draw beyond those supplied.
RECURSIVE RollLoop(_, _, _, _)
RollLoop(i, numDice, res, ds) ==
    IF i < numDice
    THEN IF i + 1 > Len(ds)
         THEN [result |-> res, used |-> i, starved |-> TRUE]
         ELSE RollLoop(i + 1, numDice, res \o toString(ds[i + 1]), ds)
    ELSE [result |-> res, used |-> i, starved |-> FALSE]

RollRun_abs(numDice, ds) ==
    RollLoop(0, IF numDice < 0 THEN 0 - numDice ELSE numDice, <<>>, ds)

RollRun_short(numDice, ds) == RollLoop(0, numDice - 1, <<>>, ds)

RollRun_prepend(numDice, ds) ==
    LET r == RollLoop(0, numDice, <<>>, ds)
    IN  [r EXCEPT !.result = [k \in 1..Len(r.result) |->
                                 r.result[Len(r.result) + 1 - k]]]

RollRun(numDice, ds) == RollLoop(0, numDice, <<>>, ds)

\* the draw sequences a run of generateDiceRolls(numDice) consumes exactly
DrawSequences(numDice, maxDraws) ==
    {ds \in UNION {[1..k -> secureRandomInt(1, 6)] : k \in 0..maxDraws} :
        LET r == RollRun(numDice, ds) IN ~r.starved /\ r.used = Len(ds)}

generateDiceRolls(numDice, ds) == RollRun(numDice, ds).result

-----------------------------------------------------------------------------
(* utils/diceware: loadWordlist *)

\* readFileSync outcome: the file's text, or no readable file (ENOENT)
Missing == [exists |-> FALSE, data |-> <<>>]
File(text) == [exists |-> TRUE, data |-> text]

EmptyMap == [k \in {} |-> <<>>]

\* Map.prototype.set: key-based upsert
MapSetIfAbsent(m, k, v) ==
    [x \in DOMAIN m \cup {k} |-> IF x \in DOMAIN m THEN m[x] ELSE v]

MapSet(m, k, v) ==
    [x \in DOMAIN m \cup {k} |-> IF x = k THEN v ELSE m[x]]

\* JavaScript truthiness of a string: non-empty
Truthy(s) == s # <<>>

LoadLine_noGuard(m, line) ==
    IF trim(line) = <<>> THEN m
    ELSE LET parts == split(line, TAB)
         IN  IF Len(parts) = 2 THEN MapSet(m, parts[1], parts[2]) ELSE m

\* the body of the for-of loop over lines, one line
LoadLine(m, line) ==
    IF trim(line) = <<>> THEN m
    ELSE LET parts == split(line, TAB)
         IN  IF Len(parts) = 2
             THEN LET number == parts[1]
                      word == parts[2]
                  IN  IF Truthy(number) /\ Truthy(word)
                      THEN MapSet(m, number, word)
                      ELSE m
             ELSE m

RECURSIVE LoadLines(_, _)
LoadLines(m, lines) ==
    IF lines = <<>> THEN m
    ELSE LoadLines(LoadLine(m, Head(lines)), Tail(lines))

\* the lines array: content.trim().split("\n")
ContentLines(content) == split(trim(content), NL)

\* loadWordlist: throws when readFileSync throws, else the parsed map
loadWordlist_swallow(f) ==
    IF ~f.exists
    THEN [threw |-> FALSE, map |-> EmptyMap]
    ELSE [threw |-> FALSE, map |-> LoadLines(EmptyMap, ContentLines(f.data))]

loadWordlist(f) ==
    IF ~f.exists
    THEN [threw |-> TRUE, map |-> EmptyMap]
    ELSE [threw |-> FALSE, map |-> LoadLines(EmptyMap, ContentLines(f.data))]

-----------------------------------------------------------------------------
(* utils/diceware: getDiceCount *)

\* the values a caller can pass as filename: string | null | undefined
JsString(s) == [type |-> "string", str |-> s]
JsNull == [type |-> "null", str |-> ""]
JsUndefined == [type |-> "undefined", str |-> ""]

\* what a property read yields: a number, undefined, or a member inherited
\* from Object.prototype (a function or object)
JsNumber(n) == [type |-> "number", num |-> n]
JsNoValue == [type |-> "undefined", num |-> 0]
JsInherited == [type |-> "object", num |-> 0]

\* !filename
Falsy(v) == v.type \in {"null", "undefined"} \/ v.str = ""

Wordlists ==
    {"short_wordlist_unique_prefixes.txt", "short_wordlist.txt",
     "large_wordlist.txt", "original_reinhold_wordlist.txt"}

\* the own properties of the object literal diceCountMap
diceCountMap ==
    [f \in Wordlists |->
        IF f \in {"large_wordlist.txt", "original_reinhold_wordlist.txt"}
        THEN 5 ELSE 4]

\* names every object literal inherits from Object.prototype
ObjectPrototypeNames ==
    {"constructor", "hasOwnProperty", "isPrototypeOf", "propertyIsEnumerable",
     "toLocaleString", "toString", "valueOf", "__proto__"}

\* diceCountMap[filename]: own property, else the prototype chain, else
\* undefined
PropertyRead(name) ==
    IF name \in DOMAIN diceCountMap THEN JsNumber(diceCountMap[name])
    ELSE IF name \in ObjectPrototypeNames THEN JsInherited
    ELSE JsNoValue

\* a ?? b
NullishOr(a, b) == IF a.type = "undefined" THEN b ELSE a

getDiceCount(filename) ==
    IF Falsy(filename) THEN JsNumber(4)
    ELSE NullishOr(PropertyRead(filename.str), JsNumber(4))

-----------------------------------------------------------------------------
(* tools/diceware.ts: the diceware-passphrase handler *)

\* Map.prototype.get: the word, or undefined
MapGet(m, k) ==
    IF k \in DOMAIN m THEN [defined |-> TRUE, str |-> m[k]]
    ELSE [defined |-> FALSE, str |-> <<>>]

\* !word
NoWord(w) == ~w.defined \/ w.str = <<>>

FinalWord_upperAll(capitalize, word) ==
    IF capitalize THEN toUpperCase(word) ELSE word

\* capitalize ? word.charAt(0).toUpperCase() + word.slice(1) : word
FinalWord(capitalize, word) ==
    IF capitalize THEN toUpperCase(charAt(word, 0)) \o slice(word, 1) ELSE word

\* Array.prototype.unshift
Unshift(arr, x) == <<x>> \o arr

\* Array.prototype.push
Push(arr, x) == Append(arr, x)

NoResult ==
    [isError |-> FALSE, template |-> "", words |-> 0, wordlist |-> "",
     passphrase |-> <<>>, rollsDisplay |-> <<>>, roll |-> <<>>, message |-> ""]

WordNotFoundTemplate ==
    "Error: No word found for dice roll ${roll} in wordlist ${wordlist}"

SuccessTemplate ==
    "Diceware passphrase (${words} words from ${wordlist}):\n\n${passphrase}\n\nDice rolls used: ${rollsDisplay}\n\nThis passphrase was generated using cryptographically secure randomness."

CatchTemplate == "Error generating diceware passphrase: ${message}"

\* the early return of the loop: the error result for a roll without word
WordNotFoundResult(roll, wordlist) ==
    [NoResult EXCEPT !.isError = TRUE, !.template = WordNotFoundTemplate,
                     !.roll = roll, !.wordlist = wordlist]

SuccessResult_noEmpty(words, wordlist, pw, dr) ==
    IF pw = <<>> THEN WordNotFoundResult(<<>>, wordlist)
    ELSE [NoResult EXCEPT !.template = SuccessTemplate, !.words = words,
                          !.wordlist = wordlist,
                          !.passphrase = join(pw, <<SPACE>>),
                          !.rollsDisplay = join(dr, <<",", SPACE>>)]

\* the return after the loop
SuccessResult(words, wordlist, pw, dr) ==
    [NoResult EXCEPT !.template = SuccessTemplate, !.words = words,
                     !.wordlist = wordlist,
                     !.passphrase = join(pw, <<SPACE>>),
                     !.rollsDisplay = join(dr, <<",", SPACE>>)]

CatchResult_noFlag(message) ==
    [NoResult EXCEPT !.template = CatchTemplate, !.message = message]

\* the catch block
CatchResult(message) ==
    [NoResult EXCEPT !.isError = TRUE, !.template = CatchTemplate,
                     !.message = message]

\* what the error thrown by readFileSync says
ReadErrorMessage == "ENOENT: no such file or directory"

LoopBody_unshiftWord(a, wm, st, roll) ==
    LET word == MapGet(wm, roll)
        rolls == Push(st.diceRolls, roll)
    IN  IF NoWord(word)
        THEN [st EXCEPT !.diceRolls = rolls, !.returned = TRUE,
                        !.result = WordNotFoundResult(roll, a.wordlist)]
        ELSE [st EXCEPT !.i = st.i + 1, !.diceRolls = rolls,
                        !.passphraseWords =
                            Unshift(st.passphraseWords,
                                    FinalWord(a.capitalize, word.str))]

LoopBody_skip(a, wm, st, roll) ==
    LET word == MapGet(wm, roll)
        rolls == Push(st.diceRolls, roll)
    IN  IF NoWord(word)
        THEN [st EXCEPT !.i = st.i + 1, !.diceRolls = rolls]
        ELSE [st EXCEPT !.i = st.i + 1, !.diceRolls = rolls,
                        !.passphraseWords =
                            Push(st.passphraseWords,
                                 FinalWord(a.capitalize, word.str))]

\* one iteration of the for loop, given the roll generateDiceRolls returned;
\* st holds i, passphraseWords, diceRolls and, once the handler has
\* returned, its result
LoopBody(a, wm, st, roll) ==
    LET word == MapGet(wm, roll)
        rolls == Push(st.diceRolls, roll)
    IN  IF NoWord(word)
        THEN [st EXCEPT !.diceRolls = rolls, !.returned = TRUE,
                        !.result = WordNotFoundResult(roll, a.wordlist)]
        ELSE [st EXCEPT !.i = st.i + 1, !.diceRolls = rolls,
                        !.passphraseWords =
                            Push(st.passphraseWords,
                                 FinalWord(a.capitalize, word.str))]

-----------------------------------------------------------------------------
(* Direct calls of the utility functions *)

NoCall == [fn |-> "none", arg |-> <<>>, ret |-> <<>>]

\* file contents for direct loadWordlist calls: every string over a small
\* alphabet (a digit, a letter, and the three separators the parser reads)
LoadAlphabet == {"1", "a", SPACE, TAB, NL}
LoadContents == UNION {[1..n -> LoadAlphabet] : n \in 0..MaxContentLen}

\* several requests to the tool in one process
MaxRequests == 2
Requests == 1..MaxRequests

sessionVars == <<slots, response>>

NoArgs == [words |-> 0, wordlist |-> "", capitalize |-> FALSE]

\* no invocation in progress for a request: no locals exist
IdleSlot ==
    [pc |-> "idle", args |-> NoArgs, file |-> Missing, wordMap |-> EmptyMap,
     diceCount |-> 0, i |-> 0, passphraseWords |-> <<>>, diceRolls |-> <<>>,
     drawLog |-> <<>>]

NoResponse ==
    [id |-> 0, args |-> NoArgs, file |-> Missing, wordMap |-> EmptyMap,
     drawLog |-> <<>>, result |-> NoResult]

SessionIdle ==
    /\ slots = [id \in Requests |-> IdleSlot]
    /\ response = NoResponse

HandlerIdle ==
    /\ pc = "idle"
    /\ args = [words |-> 0, wordlist |-> "", capitalize |-> FALSE]
    /\ file = Missing
    /\ wordMap = EmptyMap
    /\ loopI = 0
    /\ draws = 0
    /\ diceCount = 0
    /\ passphraseWords = <<>>
    /\ diceRolls = <<>>
    /\ result = NoResult

InitLoad ==
    /\ HandlerIdle
    /\ SessionIdle
    /\ \E c \in LoadContents :
           call = [fn |-> "loadWordlist:pending", arg |-> File(c), ret |-> <<>>]

CallLoadWordlist ==
    /\ call.fn = "loadWordlist:pending"
    /\ call' = [fn |-> "loadWordlist", arg |-> call.arg,
                ret |-> loadWordlist(call.arg)]
    /\ UNCHANGED <<handlerVars, sessionVars>>

NextLoad == CallLoadWordlist

SpecLoad == InitLoad /\ [][NextLoad]_vars

\* arguments of the direct calls
DiceArgs == (0 - MaxDice)..MaxDice
IntArgs == (0 - MaxAbsInt)..MaxAbsInt
FilenameArgs ==
    {JsString(s) : s \in Wordlists \cup {"", "unknown_file.txt",
                                          "some_random_name.txt",
                                          "constructor", "toString"}}
        \cup {JsNull, JsUndefined}

CallGetDiceCount ==
    /\ \E f \in FilenameArgs :
           call' = [fn |-> "getDiceCount", arg |-> f, ret |-> getDiceCount(f)]
    /\ UNCHANGED <<handlerVars, sessionVars>>

CallGenerateDiceRolls ==
    /\ \E n \in DiceArgs :
           \E ds \in DrawSequences(n, MaxDice) :
               call' = [fn |-> "generateDiceRolls",
                        arg |-> [numDice |-> n, ds |-> ds],
                        ret |-> generateDiceRolls(n, ds)]
    /\ UNCHANGED <<handlerVars, sessionVars>>

CallSecureRandomInt ==
    /\ \E min \in IntArgs, max \in IntArgs :
           \/ /\ secureRandomInt(min, max) = {}
              /\ call' = [fn |-> "secureRandomInt",
                          arg |-> [min |-> min, max |-> max],
                          ret |-> [threw |-> TRUE, value |-> 0]]
           \/ \E v \in secureRandomInt(min, max) :
                  call' = [fn |-> "secureRandomInt",
                           arg |-> [min |-> min, max |-> max],
                           ret |-> [threw |-> FALSE, value |-> v]]
    /\ UNCHANGED <<handlerVars, sessionVars>>

InitUtil == HandlerIdle /\ SessionIdle /\ call = NoCall

NextUtil == CallGetDiceCount \/ CallGenerateDiceRolls \/ CallSecureRandomInt

SpecUtil == InitUtil /\ [][NextUtil]_vars

-----------------------------------------------------------------------------
(* Direct calls of the float, shuffle and choice helpers of utils/crypto *)

MaxArrayLen == 3

\* bytes that randomBytes can return, the extremes among them
SampleBytes == {0, 1, 128, 255}

Elements == {"a", "b", "c"}

Arrays == UNION {[1..n -> Elements] : n \in 0..MaxArrayLen}

CallSecureRandomFloat ==
    /\ call = NoCall
    /\ \E min \in IntArgs, max \in IntArgs, buf \in [1..4 -> SampleBytes] :
           call' = [fn |-> "secureRandomFloat",
                    arg |-> [min |-> min, max |-> max, randomBytes |-> buf],
                    ret |-> secureRandomFloat(min, max, buf)]
    /\ UNCHANGED <<handlerVars, sessionVars>>

\* the caller holds its array at reference 1
CallSecureArrayShuffle ==
    /\ call = NoCall
    /\ \E array \in Arrays :
           \E ds \in ShuffleDraws(Len(array)) :
               LET r == secureArrayShuffle(<<array>>, 1, ds)
               IN  call' = [fn |-> "secureArrayShuffle",
                            arg |-> [array |-> array, ds |-> ds],
                            ret |-> [array |-> r.heap[1],
                                     shuffled |-> r.heap[r.ref],
                                     sameArray |-> r.ref = 1]]
    /\ UNCHANGED <<handlerVars, sessionVars>>

CallSecureRandomChoice ==
    /\ call = NoCall
    /\ \E array \in Arrays :
           \/ /\ secureRandomChoice(array) = {}
              /\ call' = [fn |-> "secureRandomChoice", arg |-> array,
                          ret |-> [threw |-> TRUE, draws |-> 1, index |-> 0,
                                   element |-> ArrayGet(<<>>, 0)]]
           \/ \E r \in secureRandomChoice(array) :
                  call' = [fn |-> "secureRandomChoice", arg |-> array,
                           ret |-> [threw |-> FALSE, draws |-> r.draws,
                                    index |-> r.index, element |-> r.element]]
    /\ UNCHANGED <<handlerVars, sessionVars>>

\* the call has returned; the next one can be made
CallReturned ==
    /\ call # NoCall
    /\ call' = NoCall
    /\ UNCHANGED <<handlerVars, sessionVars>>

InitCrypto == HandlerIdle /\ SessionIdle /\ call = NoCall

NextCrypto ==
    \/ CallSecureRandomFloat
    \/ CallSecureArrayShuffle
    \/ CallSecureRandomChoice
    \/ CallReturned

SpecCrypto == InitCrypto /\ [][NextCrypto]_vars

-----------------------------------------------------------------------------
(* The diceware-passphrase tool: invocations, one at a time (the handler
   has no await, so it runs to completion before the next request) *)

WordCounts == (0 - 1)..MaxWords

Line(key, word) == key \o <<TAB>> \o word

\* a wordlist file with keys of both widths; one entry holds a space
MixedContent ==
    join(<<Line(<<"1", "1", "1", "1">>, <<"a", "b">>),
           Line(<<"1", "6", "1", "6">>, <<"c", "d">>),
           Line(<<"6", "6", "6", "6">>, <<"e", SPACE, "f">>),
           Line(<<"1", "1", "1", "1", "1">>, <<"a", "b">>),
           Line(<<"6", "6", "6", "6", "6">>, <<"C", "d">>)>>, <<NL>>) \o <<NL>>

\* what readFileSync can find: no file, that wordlist, or an empty file
HandlerFiles == {Missing, File(MixedContent), File(<<>>)}

\* the handler up to the loop: loadWordlist, getDiceCount, the two arrays
Invoke ==
    /\ pc = "idle"
    /\ \E w \in WordCounts, wl \in Wordlists, c \in BOOLEAN, f \in HandlerFiles :
           LET loaded == loadWordlist(f)
           IN  /\ args' = [words |-> w, wordlist |-> wl, capitalize |-> c]
               /\ file' = f
               /\ loopI' = 0
               /\ draws' = 0
               /\ passphraseWords' = <<>>
               /\ diceRolls' = <<>>
               /\ IF loaded.threw
                  THEN /\ wordMap' = EmptyMap
                       /\ diceCount' = 0
                       /\ result' = CatchResult(ReadErrorMessage)
                       /\ pc' = "done"
                  ELSE /\ wordMap' = loaded.map
                       /\ diceCount' = getDiceCount(JsString(wl)).num
                       /\ result' = NoResult
                       /\ pc' = "loop"
    /\ UNCHANGED <<call, sessionVars>>

\* one iteration of the loop: a roll, its lookup, the push or the early
\* return
Iterate ==
    /\ pc = "loop"
    /\ loopI < args.words
    /\ \E ds \in DrawSequences(diceCount, diceCount) :
           LET st == [i |-> loopI, passphraseWords |-> passphraseWords,
                      diceRolls |-> diceRolls, returned |-> FALSE,
                      result |-> result]
               nx == LoopBody(args, wordMap, st,
                              generateDiceRolls(diceCount, ds))
           IN  /\ loopI' = nx.i
               /\ draws' = draws + Len(ds)
               /\ passphraseWords' = nx.passphraseWords
               /\ diceRolls' = nx.diceRolls
               /\ result' = nx.result
               /\ pc' = IF nx.returned THEN "done" ELSE "loop"
    /\ UNCHANGED <<args, file, wordMap, diceCount, call, sessionVars>>

\* the loop ends: join and return the success result
Finish ==
    /\ pc = "loop"
    /\ ~(loopI < args.words)
    /\ result' = SuccessResult(args.words, args.wordlist, passphraseWords,
                               diceRolls)
    /\ pc' = "done"
    /\ UNCHANGED <<args, file, wordMap, loopI, draws, diceCount, passphraseWords,
                   diceRolls, call, sessionVars>>

\* the result has been handed to the caller: the locals are gone and the
\* server waits for the next request
Return ==
    /\ pc = "done"
    /\ pc' = "idle"
    /\ args' = [words |-> 0, wordlist |-> "", capitalize |-> FALSE]
    /\ file' = Missing
    /\ wordMap' = EmptyMap
    /\ loopI' = 0
    /\ draws' = 0
    /\ diceCount' = 0
    /\ passphraseWords' = <<>>
    /\ diceRolls' = <<>>
    /\ result' = NoResult
    /\ UNCHANGED <<call, sessionVars>>

Init == HandlerIdle /\ SessionIdle /\ call = NoCall

Next == Invoke \/ Iterate \/ Finish \/ Return

Spec == Init /\ [][Next]_vars

-----------------------------------------------------------------------------
(* Several invocations of the tool in one process.  Every invocation has
   its own locals (the const and let bindings of the handler body); the
   steps of different invocations are interleaved freely, which includes
   the run-to-completion order of the event loop.  The result of an
   invocation is handed to the transport in the step that returns it and
   is sent before the handler is entered or resumed again; what remains of
   a finished invocation is the file it read and the map it built. *)

MaxSessionWords == 1
SessionWordlists == {"short_wordlist.txt"}
SessionCapitalize == {FALSE}

\* a second wordlist file: another word for the roll 1111, and a second
\* word that only a five-dice roll selects
OtherContent ==
    join(<<Line(<<"1", "1", "1", "1">>, <<"f", "a">>),
           Line(<<"6", "6", "6", "6", "6">>, <<"c", "d">>)>>, <<NL>>)

\* what readFileSync can find at the time of an invocation
SessionFiles == {Missing, File(MixedContent), File(OtherContent)}

\* the result res of the invocation with locals slot goes to its caller
Respond(id, slot, res) ==
    [id |-> id, args |-> slot.args, file |-> slot.file,
     wordMap |-> slot.wordMap, drawLog |-> slot.drawLog, result |-> res]

\* a result is waiting to be sent
InFlight == response.result # NoResult

\* the handler of request id from its first statement to the loop, given
\* the arguments, the file found and what loadWordlist made of it
SessionEnter(id, w, wl, c, f, loaded) ==
    LET started ==
            [pc |-> "loop",
             args |-> [words |-> w, wordlist |-> wl, capitalize |-> c],
             file |-> f, wordMap |-> loaded.map,
             diceCount |-> getDiceCount(JsString(wl)).num, i |-> 0,
             passphraseWords |-> <<>>, diceRolls |-> <<>>, drawLog |-> <<>>]
    IN  IF loaded.threw
        THEN /\ response' = Respond(id, started, CatchResult(ReadErrorMessage))
             /\ UNCHANGED slots
        ELSE /\ slots' = [slots EXCEPT ![id] = started]
             /\ UNCHANGED response

SessionInvoke_cached(id) ==
    /\ ~InFlight
    /\ slots[id].pc = "idle"
    /\ \E w \in 0..MaxSessionWords, wl \in SessionWordlists,
          c \in SessionCapitalize, f \in SessionFiles :
           SessionEnter(id, w, wl, c, f,
                        IF response.file.exists
                        THEN [threw |-> FALSE, map |-> response.wordMap]
                        ELSE loadWordlist(f))
    /\ UNCHANGED <<handlerVars, call>>

\* request id enters the handler: loadWordlist reads and parses the file
SessionInvoke(id) ==
    /\ ~InFlight
    /\ slots[id].pc = "idle"
    /\ \E w \in 0..MaxSessionWords, wl \in SessionWordlists,
          c \in SessionCapitalize, f \in SessionFiles :
           SessionEnter(id, w, wl, c, f, loadWordlist(f))
    /\ UNCHANGED <<handlerVars, call>>

Locals_shared(id) ==
    [slots[id] EXCEPT !.passphraseWords = slots[1].passphraseWords,
                      !.diceRolls = slots[1].diceRolls]

\* the bindings that the handler body of request id sees: those of its own
\* activation
Locals(id) == slots[id]

\* one loop iteration of the invocation of request id
SessionIterate(id) ==
    /\ ~InFlight
    /\ slots[id].pc = "loop"
    /\ slots[id].i < slots[id].args.words
    /\ \E ds \in DrawSequences(slots[id].diceCount, slots[id].diceCount) :
           LET my == Locals(id)
               st == [i |-> my.i, passphraseWords |-> my.passphraseWords,
                      diceRolls |-> my.diceRolls, returned |-> FALSE,
                      result |-> NoResult]
               nx == LoopBody(my.args, my.wordMap, st,
                              generateDiceRolls(my.diceCount, ds))
               after == [my EXCEPT !.i = nx.i,
                                   !.passphraseWords = nx.passphraseWords,
                                   !.diceRolls = nx.diceRolls,
                                   !.drawLog = Append(my.drawLog, ds)]
           IN  IF nx.returned
               THEN /\ response' = Respond(id, after, nx.result)
                    /\ slots' = [slots EXCEPT ![id] = IdleSlot]
               ELSE /\ slots' = [slots EXCEPT ![id] = after]
                    /\ UNCHANGED response
    /\ UNCHANGED <<handlerVars, call>>

\* the loop of the invocation of request id has ended: the success result
SessionFinish(id) ==
    /\ ~InFlight
    /\ slots[id].pc = "loop"
    /\ ~(slots[id].i < slots[id].args.words)
    /\ response' = Respond(id, slots[id],
                           SuccessResult(slots[id].args.words,
                                         slots[id].args.wordlist,
                                         slots[id].passphraseWords,
                                         slots[id].diceRolls))
    /\ slots' = [slots EXCEPT ![id] = IdleSlot]
    /\ UNCHANGED <<handlerVars, call>>

\* the transport sends the result to the caller
SessionSend ==
    /\ InFlight
    /\ response' = [NoResponse EXCEPT !.file = response.file,
                                      !.wordMap = response.wordMap]
    /\ UNCHANGED <<handlerVars, call, slots>>

InitSession == HandlerIdle /\ SessionIdle /\ call = NoCall

NextSession ==
    \/ \E id \in Requests :
           SessionInvoke(id) \/ SessionIterate(id) \/ SessionFinish(id)
    \/ SessionSend

SpecSession == InitSession /\ [][NextSession]_vars

-----------------------------------------------------------------------------
(* Claims about loadWordlist, checked under SpecLoad *)

LoadDone == call.fn = "loadWordlist"

\* the lines of the raw content, as the file holds them
RawLines(content) == split(content, NL)

\* splitting the line on the tab character yields exactly two non-empty fields
TwoNonEmptyFields(line) ==
    LET p == split(line, TAB)
    IN  Len(p) = 2 /\ p[1] # <<>> /\ p[2] # <<>>

\* a line the specification accepts: not blank, two non-empty fields
SpecAccepted(line) == trim(line) # <<>> /\ TwoNonEmptyFields(line)

\* C3 (as claimed): every entry key -> word of the returned map comes from a
\* line of the raw content (first and last line included) whose split on the
\* tab character is exactly the two non-empty fields key, word; lines with
\* more or fewer fields or an empty field contribute nothing.
C3_EntriesOnlyFromTwoFieldLines ==
    (LoadDone /\ ~call.ret.threw) =>
        \A k \in DOMAIN call.ret.map :
            \E i \in DOMAIN RawLines(call.arg.data) :
                /\ TwoNonEmptyFields(RawLines(call.arg.data)[i])
                /\ split(RawLines(call.arg.data)[i], TAB) = <<k, call.ret.map[k]>>

\* C4 (as claimed): for any readable content the load returns, without
\* error, the map of exactly the accepted lines: blank lines and malformed
\* lines of the content are skipped, every accepted line is present.
C4_MapOfExactlyAcceptedLines ==
    (LoadDone /\ call.arg.exists) =>
        LET raw == RawLines(call.arg.data)
            acc == {i \in DOMAIN raw : SpecAccepted(raw[i])}
        IN  /\ ~call.ret.threw
            /\ DOMAIN call.ret.map = {split(raw[i], TAB)[1] : i \in acc}
            /\ \A k \in DOMAIN call.ret.map :
                   \E i \in acc : split(raw[i], TAB) = <<k, call.ret.map[k]>>

\* the lines the loader's loop accepts (its three guards), by index
LoaderAccepted(lines) ==
    {i \in DOMAIN lines : trim(lines[i]) # <<>> /\ TwoNonEmptyFields(lines[i])}

-----------------------------------------------------------------------------
(* Claims about the utility functions, checked under SpecUtil *)

\* C7 (as claimed): getDiceCount returns 5 for the two five-dice
\* wordlists, 4 for the two four-dice wordlists and 4 for every other
\* identifier, the empty string, null and undefined included.
C7_GetDiceCountTotal ==
    call.fn = "getDiceCount" =>
        call.ret = JsNumber(IF call.arg.type = "string"
                               /\ call.arg.str \in {"large_wordlist.txt",
                                                    "original_reinhold_wordlist.txt"}
                            THEN 5 ELSE 4)

DieFaces == {"1", "2", "3", "4", "5", "6"}

\* C8: for n >= 0, generateDiceRolls(n) makes n draws and returns a string
\* of exactly n characters, each one of '1'..'6', the k-th character being
\* the decimal digit of the k-th draw; n = 0 yields the empty string.
C8_DiceRollsLengthAndOrder ==
    (call.fn = "generateDiceRolls" /\ call.arg.numDice >= 0) =>
        /\ Len(call.ret) = call.arg.numDice
        /\ Len(call.arg.ds) = call.arg.numDice
        /\ \A k \in 1..Len(call.ret) :
               /\ call.ret[k] \in DieFaces
               /\ call.ret[k] = DecimalDigits[call.arg.ds[k] + 1]
        /\ (call.arg.numDice = 0 => call.ret = <<>>)

\* C8 witness: three dice whose draws differ, returned in draw order
C8_Witness ==
    /\ call.fn = "generateDiceRolls"
    /\ call.arg.numDice = 3
    /\ call.arg.ds = <<6, 1, 3>>
    /\ call.ret = <<"6", "1", "3">>

\* C9: for min <= max, secureRandomInt(min, max) returns an integer v with
\* min <= v <= max, min and max are both among its possible results, and
\* for min = max the result is that value.
C9_SecureRandomIntRange ==
    (call.fn = "secureRandomInt" /\ call.arg.min <= call.arg.max) =>
        /\ ~call.ret.threw
        /\ call.ret.value \in call.arg.min..call.arg.max
        /\ (call.arg.min = call.arg.max => call.ret.value = call.arg.min)
        /\ {call.arg.min, call.arg.max}
               \subseteq secureRandomInt(call.arg.min, call.arg.max)

\* C9 witness: a negative range whose upper bound is the result
C9_Witness ==
    /\ call.fn = "secureRandomInt"
    /\ call.arg.min = 0 - 3
    /\ call.arg.max = 0 - 1
    /\ ~call.ret.threw
    /\ call.ret.value = call.arg.max

-----------------------------------------------------------------------------
(* Claims about the diceware-passphrase handler, checked under Spec *)

Succeeded == pc = "done" /\ ~result.isError

\* the space-separated tokens of a passphrase; the empty passphrase has none
Tokens(s) == IF s = <<>> THEN <<>> ELSE split(s, SPACE)

\* the rolls list is n rolls, each of getDiceCount(wordlist) die digits and
\* a key of the loaded wordlist
RollsAreKeys ==
    /\ Len(diceRolls) = args.words
    /\ result.rollsDisplay = join(diceRolls, <<",", SPACE>>)
    /\ \A k \in 1..Len(diceRolls) :
           /\ Len(diceRolls[k]) = getDiceCount(JsString(args.wordlist)).num
           /\ \A j \in 1..Len(diceRolls[k]) : diceRolls[k][j] \in DieFaces
           /\ diceRolls[k] \in DOMAIN wordMap

\* the passphrase has n tokens, the k-th being the entry of the k-th roll
TokensAreEntries ==
    /\ Len(Tokens(result.passphrase)) = args.words
    /\ \A k \in 1..args.words :
           Tokens(result.passphrase)[k] = wordMap[diceRolls[k]]

\* C1 (as claimed): for n >= 0 and capitalize=false a successful invocation
\* yields a passphrase of exactly n space-separated tokens and n rolls, each
\* roll a key of getDiceCount(wordlist) digits, the i-th token being the
\* wordlist entry of the i-th roll.
C1_ExactlyNTokens ==
    (Succeeded /\ args.words >= 0 /\ ~args.capitalize) =>
        (RollsAreKeys /\ TokensAreEntries)

\* C1 (amended): as above, but the passphrase is the entries of the rolls
\* joined by single spaces in draw order, and it has exactly n tokens, the
\* i-th being the entry of the i-th roll, when no selected entry contains a
\* space.
C1_PassphraseOfRolls ==
    (Succeeded /\ args.words >= 0 /\ ~args.capitalize) =>
        /\ RollsAreKeys
        /\ result.passphrase =
               join([k \in 1..args.words |-> wordMap[diceRolls[k]]], <<SPACE>>)
        /\ (\A k \in 1..args.words :
                \A j \in 1..Len(wordMap[diceRolls[k]]) :
                    wordMap[diceRolls[k]][j] # SPACE)
               => TokensAreEntries

\* C1 witness: two words from two different rolls, returned in draw order
C1_Witness ==
    /\ Succeeded
    /\ args.words = 2
    /\ ~args.capitalize
    /\ diceRolls = <<<<"1", "6", "1", "6">>, <<"1", "1", "1", "1">>>>
    /\ result.passphrase = <<"c", "d", SPACE, "a", "b">>

\* C2: a roll that has no entry in the loaded wordlist ends the invocation
\* at once with the error result naming that roll and the wordlist: it is
\* the last roll generated, every roll before it had an entry, the loop does
\* not go on, and the result carries no passphrase.
C2_UnmappedRollFails ==
    (\E k \in 1..Len(diceRolls) : diceRolls[k] \notin DOMAIN wordMap) =>
        /\ pc = "done"
        /\ result.isError
        /\ result.template = WordNotFoundTemplate
        /\ result.roll = diceRolls[Len(diceRolls)]
        /\ result.wordlist = args.wordlist
        /\ result.passphrase = <<>>
        /\ diceRolls[Len(diceRolls)] \notin DOMAIN wordMap
        /\ \A j \in 1..(Len(diceRolls) - 1) : diceRolls[j] \in DOMAIN wordMap
        /\ Len(passphraseWords) = Len(diceRolls) - 1

\* C2 witness: the second roll has no entry, after one word was selected
C2_Witness ==
    /\ pc = "done"
    /\ result.isError
    /\ Len(diceRolls) = 2
    /\ Len(passphraseWords) = 1
    /\ diceRolls[2] \notin DOMAIN wordMap
    /\ result.roll = diceRolls[2]

\* C6: when the wordlist is not readable, loadWordlist throws and gives no
\* map; the invocation ends with the error result of the catch block, and
\* no roll, no draw and no passphrase is made.
C6_UnreadableWordlistFails ==
    (pc # "idle" /\ ~file.exists) =>
        /\ pc = "done"
        /\ result.isError
        /\ result.template = CatchTemplate
        /\ result.passphrase = <<>>
        /\ wordMap = EmptyMap
        /\ diceRolls = <<>>
        /\ passphraseWords = <<>>
        /\ draws = 0

\* C6 witness: an invocation for two words on an unreadable wordlist
C6_Witness ==
    /\ pc = "done"
    /\ ~file.exists
    /\ args.words = 2
    /\ result.isError

\* C10: with capitalize=true every word of the output is its wordlist entry
\* with the first character uppercased and the other characters unchanged;
\* with capitalize=false it is the entry verbatim.  The output passphrase is
\* these words joined.
C10_Capitalize ==
    /\ \A k \in 1..Len(passphraseWords) :
           LET entry == wordMap[diceRolls[k]]
               w == passphraseWords[k]
           IN  IF args.capitalize
               THEN /\ Len(w) = Len(entry)
                    /\ w[1] = UpperChar(entry[1])
                    /\ \A j \in 2..Len(entry) : w[j] = entry[j]
               ELSE w = entry
    /\ Succeeded => result.passphrase = join(passphraseWords, <<SPACE>>)

\* C10 witness: "ab" and "e f" capitalized
C10_Witness ==
    /\ Succeeded
    /\ args.capitalize
    /\ passphraseWords = <<<<"A", "b">>, <<"E", SPACE, "f">>>>
    /\ result.passphrase = <<"A", "b", SPACE, "E", SPACE, "f">>

\* C11 (as claimed): an invocation with a negative word count is rejected
\* with an error result before any wordlist load or dice roll: no word map
\* is built, no draw is made and no success result is returned.
C11_NegativeCountRejected ==
    (pc # "idle" /\ args.words < 0) =>
        /\ pc = "done"
        /\ result.isError
        /\ wordMap = EmptyMap
        /\ draws = 0

\* an invocation has failed: the wordlist was unreadable or a roll had no
\* entry
HandlerFailed ==
    \/ ~file.exists
    \/ \E k \in 1..Len(diceRolls) : diceRolls[k] \notin DOMAIN wordMap

\* C12: every invocation ends by returning a result; after a failure
\* (unreadable wordlist, unmapped roll) the result returned is an error
\* result with isError set and one of the two error messages, and it holds
\* no passphrase; a success result is returned only when nothing failed.
\* An invocation in its loop can always take its next step.
C12_FailuresAreErrorResults ==
    /\ pc = "done" =>
           /\ result.template \in
                  {SuccessTemplate, WordNotFoundTemplate, CatchTemplate}
           /\ HandlerFailed =>
                  /\ result.isError
                  /\ result.template \in {WordNotFoundTemplate, CatchTemplate}
                  /\ result.template = CatchTemplate => result.message # ""
                  /\ result.template = WordNotFoundTemplate => result.roll # <<>>
                  /\ result.passphrase = <<>>
           /\ ~HandlerFailed =>
                  /\ ~result.isError
                  /\ result.template = SuccessTemplate
    /\ pc = "loop" => (~HandlerFailed /\ ENABLED (Iterate \/ Finish))

\* C12 witness: both failures are reachable; here the unreadable wordlist,
\* reported by the catch block with the message of the error
C12_Witness ==
    /\ pc = "done"
    /\ ~file.exists
    /\ result.isError
    /\ result.template = CatchTemplate
    /\ result.message = ReadErrorMessage

-----------------------------------------------------------------------------
(* Claims about several invocations, checked under SpecSession *)

InLoop(id) == slots[id].pc = "loop"

\* the map that reading and parsing the content yields
ParsedMap(f) == LoadLines(EmptyMap, ContentLines(f.data))

\* C13: no wordlist is cached between invocations: the word map of every
\* invocation, in progress or finished, is the parse of the content that
\* its own read found, whatever an earlier or concurrent invocation read;
\* an invocation whose read failed has no map, even after one that had.
C13_NoWordlistCache ==
    /\ \A id \in Requests :
           InLoop(id) =>
               /\ slots[id].file.exists
               /\ slots[id].wordMap = ParsedMap(slots[id].file)
    /\ response.wordMap =
           (IF response.file.exists THEN ParsedMap(response.file) ELSE EmptyMap)
    /\ (InFlight /\ ~response.file.exists) =>
           response.result = CatchResult(ReadErrorMessage)

\* C13 witness: an invocation that read the first content has finished; a
\* later state has an invocation that read the changed content, and its map
\* holds the new word for the roll 1111
C13_Witness ==
    /\ ~InFlight
    /\ response.file = File(MixedContent)
    /\ response.wordMap[<<"1", "1", "1", "1">>] = <<"a", "b">>
    /\ InLoop(1)
    /\ slots[1].file = File(OtherContent)
    /\ slots[1].wordMap[<<"1", "1", "1", "1">>] = <<"f", "a">>
    /\ ~InLoop(2)

\* the roll that a sequence of draws spells
RollOfDraws(ds) == [j \in 1..Len(ds) |-> DecimalDigits[ds[j] + 1]]

RollsOfLog(log) == [k \in 1..Len(log) |-> RollOfDraws(log[k])]

\* the word put in the passphrase for an entry
WordOfEntry(capitalize, entry) ==
    IF capitalize
    THEN <<UpperChar(entry[1])>> \o SubSeq(entry, 2, Len(entry))
    ELSE entry

\* the result that arguments a, file f and the logged draws determine
ResultOfInputs(a, f, log) ==
    LET m == ParsedMap(f)
        rolls == RollsOfLog(log)
    IN  IF ~f.exists
        THEN CatchResult(ReadErrorMessage)
        ELSE IF \E k \in 1..Len(rolls) : rolls[k] \notin DOMAIN m
        THEN WordNotFoundResult(rolls[Len(rolls)], a.wordlist)
        ELSE SuccessResult(a.words, a.wordlist,
                           [k \in 1..Len(rolls) |->
                                WordOfEntry(a.capitalize, m[rolls[k]])],
                           rolls)

\* the locals of every invocation in progress, and the result of the one
\* that has just returned, are what its own inputs determine
OwnInputsOnly ==
    /\ \A id \in Requests :
           InLoop(id) =>
               LET s == slots[id]
                   rolls == RollsOfLog(s.drawLog)
               IN  /\ s.wordMap = ParsedMap(s.file)
                   /\ s.i = Len(s.drawLog)
                   /\ s.i <= s.args.words
                   /\ s.diceRolls = rolls
                   /\ \A k \in 1..Len(rolls) : rolls[k] \in DOMAIN s.wordMap
                   /\ s.passphraseWords =
                          [k \in 1..Len(rolls) |->
                               WordOfEntry(s.args.capitalize,
                                           s.wordMap[rolls[k]])]
    /\ InFlight =>
           response.result =
               ResultOfInputs(response.args, response.file, response.drawLog)

\* a step changes the locals of at most one invocation
OneInvocationSteps ==
    \A a \in Requests, b \in Requests :
        (a # b /\ slots'[a] # slots[a]) => slots'[b] = slots[b]

\* C14: for any interleaving of the steps of several invocations, the word
\* map, the word list and the rolls list of each invocation, and the result
\* it returns, are determined by its own arguments, its own draws and the
\* content it read; a step of one invocation leaves the locals of every
\* other invocation as they were.
C14_InvocationsIndependent == []OwnInputsOnly /\ [][OneInvocationSteps]_vars

\* C14 witness: two invocations in progress at once, on different contents,
\* both having rolled 1111: each holds the word of its own wordlist
C14_Witness ==
    /\ InLoop(1)
    /\ InLoop(2)
    /\ slots[1].file = File(MixedContent)
    /\ slots[2].file = File(OtherContent)
    /\ slots[1].diceRolls = <<<<"1", "1", "1", "1">>>>
    /\ slots[2].diceRolls = <<<<"1", "1", "1", "1">>>>
    /\ slots[1].passphraseWords = <<<<"a", "b">>>>
    /\ slots[2].passphraseWords = <<<<"f", "a">>>>

-----------------------------------------------------------------------------
(* The handler on wordlists of real size.  The parse of a file of 6^4 or
   6^5 lines is not recomputed here: the invocation starts from the map
   that loadWordlist returns for such a file, one entry per line. *)

MaxFullWords == 1

\* every roll of w dice
AllKeys(w) == [1..w -> DieFaces]

\* the position of a roll in the wordlist file, counted from 0
RECURSIVE LineOfKey(_, _)
LineOfKey(key, n) ==
    IF key = <<>> THEN n
    ELSE LineOfKey(Tail(key),
                   6 * n + (CHOOSE d \in 1..6 : DecimalDigits[d + 1] = Head(key)) - 1)

\* the word on that line: two letters, several lines share a word
WordOfLine(n) == <<LowerCase[(n % 6) + 1], LowerCase[((n \div 6) % 6) + 1]>>

\* the map of a file with one line per roll of w dice
FullMap(w) == [key \in AllKeys(w) |-> WordOfLine(LineOfKey(key, 0))]

\* the same file without the line of the roll of all sixes
HoleMap(w) ==
    [key \in AllKeys(w) \ {[j \in 1..w |-> "6"]} |->
        WordOfLine(LineOfKey(key, 0))]

\* an identifier and the map loadWordlist returns for it: the file holds
\* every roll of its dice count, or all of them but one, or every roll of
\* the other dice count
FullCases ==
    {<<"short_wordlist.txt", FullMap(4)>>,
     <<"short_wordlist.txt", HoleMap(4)>>,
     <<"short_wordlist.txt", FullMap(5)>>,
     <<"large_wordlist.txt", FullMap(5)>>}

\* the handler up to the loop, loadWordlist having returned the map m
FullInvoke ==
    /\ pc = "idle"
    /\ \E w \in 0..MaxFullWords, c \in BOOLEAN, case \in FullCases :
           LET wl == case[1]
               m == case[2]
           IN
           /\ args' = [words |-> w, wordlist |-> wl, capitalize |-> c]
           /\ file' = File(<<>>)
           /\ loopI' = 0
           /\ draws' = 0
           /\ passphraseWords' = <<>>
           /\ diceRolls' = <<>>
           /\ wordMap' = m
           /\ diceCount' = getDiceCount(JsString(wl)).num
           /\ result' = NoResult
           /\ pc' = "loop"
    /\ UNCHANGED <<call, sessionVars>>

InitFull == HandlerIdle /\ SessionIdle /\ call = NoCall

NextFull == FullInvoke \/ Iterate \/ Finish \/ Return

SpecFull == InitFull /\ [][NextFull]_vars

\* the loaded wordlist is well-formed for its identifier: its keys are
\* exactly the strings of getDiceCount(identifier) digits over 1..6
WellFormed(m, wl) == DOMAIN m = AllKeys(getDiceCount(JsString(wl)).num)

\* C15: an invocation that ends in the error "No word found for dice roll"
\* ran on a wordlist that is not well-formed for its identifier; that is,
\* on a well-formed wordlist no invocation, for any word count, capitalize
\* flag and dice draws, ends in that error.
C15_WellFormedNeverUnmapped ==
    (pc = "done" /\ result.template = WordNotFoundTemplate) =>
        ~WellFormed(wordMap, args.wordlist)

\* C15 witness: the five-dice wordlist with all 7776 keys; the roll 66666
\* selects the word of its last line, here capitalized
C15_Witness ==
    /\ pc = "done"
    /\ args.wordlist = "large_wordlist.txt"
    /\ args.words = 1
    /\ args.capitalize
    /\ diceRolls = <<<<"6", "6", "6", "6", "6">>>>
    /\ WellFormed(wordMap, args.wordlist)
    /\ ~result.isError
    /\ result.passphrase = <<"F", "f">>

-----------------------------------------------------------------------------
(* Claims about the float, shuffle and choice helpers, checked under
   SpecCrypto *)

\* the scaled draw num / den is less than 1
BelowOne(r) == U32Less(r.num, r.den)

\* min + (num / den) * span >= min
AtLeastMin(r) == r.span >= 0 \/ r.num = U32(0, 0)

\* min + (num / den) * span < min + span
BelowMax(r) ==
    \/ r.span > 0 /\ U32Less(r.num, r.den)
    \/ r.span < 0 /\ U32Less(r.den, r.num)

\* C16 (as claimed): secureRandomFloat(min, max) with min < max scales the
\* 32-bit draw into [0,1) and returns r with min <= r < max; for no value of
\* the draw is the result max.
C16_FloatBelowMax ==
    (call.fn = "secureRandomFloat" /\ call.arg.min < call.arg.max) =>
        /\ BelowOne(call.ret)
        /\ AtLeastMin(call.ret)
        /\ BelowMax(call.ret)

\* how many times e occurs in arr
Occurrences(arr, e) == Cardinality({k \in DOMAIN arr : arr[k] = e})

\* C17: for every input array, the empty and the one-element array
\* included, and every sequence of swap-index draws, the array returned by
\* secureArrayShuffle has the length of the input and holds every element
\* as many times as the input does.
C17_ShuffleIsPermutation ==
    call.fn = "secureArrayShuffle" =>
        /\ Len(call.ret.shuffled) = Len(call.arg.array)
        /\ \A e \in Elements :
               Occurrences(call.ret.shuffled, e) = Occurrences(call.arg.array, e)
        /\ Len(call.arg.array) <= 1 => call.ret.shuffled = call.arg.array

\* C17 witness: an array with a repeated element comes back in another
\* order
C17_Witness ==
    /\ call.fn = "secureArrayShuffle"
    /\ call.arg.array = <<"a", "b", "a">>
    /\ call.arg.ds = <<1, 0>>
    /\ call.ret.shuffled = <<"a", "a", "b">>

\* C18: secureArrayShuffle leaves the array passed to it unchanged: after
\* the call the caller's array has the same elements in the same order as
\* before, for every sequence of draws; the array returned is another one.
C18_ShuffleKeepsInput ==
    call.fn = "secureArrayShuffle" =>
        /\ call.ret.array = call.arg.array
        /\ ~call.ret.sameArray

\* C18 witness: the array returned is in another order than the input,
\* and the input is as it was
C18_Witness ==
    /\ call.fn = "secureArrayShuffle"
    /\ call.arg.array = <<"a", "b", "c">>
    /\ call.ret.shuffled = <<"c", "a", "b">>
    /\ call.ret.array = <<"a", "b", "c">>

\* C19: for every non-empty array secureRandomChoice makes one integer draw
\* over the indices 0..length-1 and returns the element at the index drawn:
\* the result is an element of the array, every index and so every element
\* can be the result, and a one-element array yields its element.
C19_ChoiceIsElement ==
    (call.fn = "secureRandomChoice" /\ call.arg # <<>>) =>
        /\ ~call.ret.threw
        /\ call.ret.draws = 1
        /\ call.ret.index \in 0..(Len(call.arg) - 1)
        /\ call.ret.element.defined
        /\ call.ret.element.value = call.arg[call.ret.index + 1]
        /\ {r.index : r \in secureRandomChoice(call.arg)} = 0..(Len(call.arg) - 1)
        /\ {r.element.value : r \in secureRandomChoice(call.arg)}
               = {call.arg[k] : k \in DOMAIN call.arg}
        /\ Len(call.arg) = 1 => call.ret.element.value = call.arg[1]

\* C19 witness: the last element of a three-element array is chosen
C19_Witness ==
    /\ call.fn = "secureRandomChoice"
    /\ call.arg = <<"a", "b", "c">>
    /\ call.ret.index = 2
    /\ call.ret.element = [defined |-> TRUE, value |-> "c"]

-----------------------------------------------------------------------------
(* C20, checked under SpecSession *)

\* the invocation of request id can take the first step of a loop that
\* will run
StartsLoop(id) ==
    ~InFlight /\ InLoop(id) /\ slots[id].i = 0 /\ slots[id].args.words >= 1

\* the passphrase returned by an invocation like s whose rolls are all key
PassphraseOfKey(s, key) ==
    join([k \in 1..s.args.words |->
              WordOfEntry(s.args.capitalize, s.wordMap[key])], <<SPACE>>)

\* two invocations with the arguments and the content of s can return
\* different passphrases: the rolls that the dice of s can produce select
\* at least two
CanDiffer(s) ==
    LET rolls == {RollOfDraws(ds) :
                     ds \in DrawSequences(s.diceCount, s.diceCount)}
        selectable == DOMAIN s.wordMap \cap rolls
        passphrases == {PassphraseOfKey(s, key) : key \in selectable}
    IN  Cardinality(passphrases) >= 2

\* invocations with the same arguments, content and draws hold the same
\* words and rolls, and return the same result
SameInputsSameOutputs ==
    /\ \A a \in Requests, b \in Requests :
           (/\ InLoop(a)
            /\ InLoop(b)
            /\ slots[a].args = slots[b].args
            /\ slots[a].file = slots[b].file
            /\ slots[a].drawLog = slots[b].drawLog) =>
               /\ slots[a].passphraseWords = slots[b].passphraseWords
               /\ slots[a].diceRolls = slots[b].diceRolls
    /\ \A a \in Requests :
           (/\ InLoop(a)
            /\ InFlight
            /\ ~(slots[a].i < slots[a].args.words)
            /\ slots[a].args = response.args
            /\ slots[a].file = response.file
            /\ slots[a].drawLog = response.drawLog) =>
               response.result =
                   SuccessResult(slots[a].args.words, slots[a].args.wordlist,
                                 slots[a].passphraseWords, slots[a].diceRolls)

\* the wordlist has at least two distinct words
TwoDistinctWords(m) == \E k1 \in DOMAIN m, k2 \in DOMAIN m : m[k1] # m[k2]

\* the wordlist has two distinct words under keys that a roll of n dice
\* can produce
TwoSelectableWords(m, n) ==
    \E k1 \in DOMAIN m, k2 \in DOMAIN m :
        /\ k1 \in AllKeys(n)
        /\ k2 \in AllKeys(n)
        /\ m[k1] # m[k2]

-----------------------------------------------------------------------------
(* C21, checked under SpecUtil *)

\* C21: for every negative n, generateDiceRolls(n) makes no draw and
\* returns the empty string.
C21_NegativeDiceNoDraw ==
    (call.fn = "generateDiceRolls" /\ call.arg.numDice < 0) =>
        /\ call.arg.ds = <<>>
        /\ call.ret = <<>>

\* C21 witness: generateDiceRolls(-1) has returned the empty string
C21_Witness ==
    /\ call.fn = "generateDiceRolls"
    /\ call.arg.numDice = 0 - 1
    /\ call.arg.ds = <<>>
    /\ call.ret = <<>>

-----------------------------------------------------------------------------
(* tools/dice: the roll-dice, random-number, random-decimal and
   random-choice tools.  Each handler runs to completion (none awaits), so
   a call is one step; call.ret keeps the result it returns together with
   the locals of the handler at its return. *)

MaxToolCount == 2

MaxSides == 3

\* a tool result: the template of its text and the values interpolated
ToolResult(isError, template, values) ==
    [isError |-> isError, template |-> template, values |-> values]

RollDiceErrorTemplate == "Error: dice must have at least 2 sides"

RollDiceSingleTemplate ==
    "Cryptographically secure roll 1d${sides}: ${rolls[0]}${modifierText}"

RollDiceManyTemplate ==
    "Cryptographically secure roll ${count}d${sides}: [${rolls.join(\", \")}] = ${finalTotal}${modifierText}"

\* the for loop of roll-dice; ds are the values the successive
\* secureRandomInt(1, sides) calls return
RECURSIVE RollDiceLoop(_, _, _, _, _, _)
RollDiceLoop(i, count, sides, rolls, total, ds) ==
    IF i < count
    THEN IF i + 1 > Len(ds) \/ ds[i + 1] \notin secureRandomInt(1, sides)
         THEN [rolls |-> rolls, total |-> total, used |-> i, starved |-> TRUE]
         ELSE RollDiceLoop(i + 1, count, sides, Push(rolls, ds[i + 1]),
                           total + ds[i + 1], ds)
    ELSE [rolls |-> rolls, total |-> total, used |-> i, starved |-> FALSE]

\* the draw sequences a run of the roll-dice loop consumes exactly
RollDiceDraws(sides, count) ==
    IF sides < 2 THEN {<<>>}
    ELSE {ds \in UNION {[1..k -> secureRandomInt(1, sides)] :
                           k \in 0..MaxToolCount} :
             LET r == RollDiceLoop(0, count, sides, <<>>, 0, ds)
             IN  ~r.starved /\ r.used = Len(ds)}

ModifierText(total, modifier) ==
    IF modifier # 0
    THEN <<SPACE, "(">> \o toString(total)
             \o (IF modifier >= 0 THEN <<"+">> ELSE <<>>)
             \o toString(modifier) \o <<")">>
    ELSE <<>>

\* the roll-dice handler
rollDice(sides, count, modifier, ds) ==
    IF sides < 2
    THEN [result |-> ToolResult(TRUE, RollDiceErrorTemplate, <<>>),
          rolls |-> <<>>, total |-> 0, draws |-> 0]
    ELSE LET r == RollDiceLoop(0, count, sides, <<>>, 0, ds)
             finalTotal == r.total + modifier
             modifierText == ModifierText(r.total, modifier)
         IN  [result |->
                  IF count = 1
                  THEN ToolResult(FALSE, RollDiceSingleTemplate,
                                  [sides |-> sides,
                                   roll |-> ArrayGet(r.rolls, 0).value,
                                   modifierText |-> modifierText])
                  ELSE ToolResult(FALSE, RollDiceManyTemplate,
                                  [count |-> count, sides |-> sides,
                                   rolls |-> join([k \in DOMAIN r.rolls |->
                                                      toString(r.rolls[k])],
                                                  <<",", SPACE>>),
                                   finalTotal |-> finalTotal,
                                   modifierText |-> modifierText]),
              rolls |-> r.rolls, total |-> r.total, draws |-> r.used]

ToolCounts == (0 - 1)..MaxToolCount

SidesArgs == (0 - 1)..MaxSides

CallRollDice ==
    /\ call = NoCall
    /\ \E sides \in SidesArgs, count \in ToolCounts, modifier \in IntArgs :
           \E ds \in RollDiceDraws(sides, count) :
               call' = [fn |-> "roll-dice",
                        arg |-> [sides |-> sides, count |-> count,
                                 modifier |-> modifier, ds |-> ds],
                        ret |-> rollDice(sides, count, modifier, ds)]
    /\ UNCHANGED <<handlerVars, sessionVars>>

RandomNumberErrorTemplate ==
    "Error: minimum value cannot be greater than maximum value"

RandomNumberSingleTemplate ==
    "Cryptographically secure random number: ${numbers[0]}"

RandomNumberManyTemplate ==
    "Cryptographically secure random numbers: ${numbers.join(\", \")}"

\* the for loop of random-number; ds are the values the successive
\* secureRandomInt(min, max) calls return
RECURSIVE RandomNumberLoop(_, _, _, _, _, _)
RandomNumberLoop(i, count, min, max, numbers, ds) ==
    IF i < count
    THEN IF i + 1 > Len(ds) \/ ds[i + 1] \notin secureRandomInt(min, max)
         THEN [numbers |-> numbers, used |-> i, starved |-> TRUE]
         ELSE RandomNumberLoop(i + 1, count, min, max,
                               Push(numbers, ds[i + 1]), ds)
    ELSE [numbers |-> numbers, used |-> i, starved |-> FALSE]

\* the draw sequences a run of the random-number loop consumes exactly
RandomNumberDraws(min, max, count) ==
    IF min > max THEN {<<>>}
    ELSE {ds \in UNION {[1..k -> secureRandomInt(min, max)] :
                           k \in 0..MaxToolCount} :
             LET r == RandomNumberLoop(0, count, min, max, <<>>, ds)
             IN  ~r.starved /\ r.used = Len(ds)}

randomNumber_noCheck(min, max, count, ds) ==
    LET r == RandomNumberLoop(0, count, min, max, <<>>, ds)
    IN  [result |->
             IF count = 1
             THEN ToolResult(FALSE, RandomNumberSingleTemplate,
                             <<ArrayGet(r.numbers, 0).value>>)
             ELSE ToolResult(FALSE, RandomNumberManyTemplate, r.numbers),
         numbers |-> r.numbers, draws |-> r.used]

\* the random-number handler
randomNumber(min, max, count, ds) ==
    IF min > max
    THEN [result |-> ToolResult(TRUE, RandomNumberErrorTemplate, <<>>),
          numbers |-> <<>>, draws |-> 0]
    ELSE LET r == RandomNumberLoop(0, count, min, max, <<>>, ds)
         IN  [result |->
                  IF count = 1
                  THEN ToolResult(FALSE, RandomNumberSingleTemplate,
                                  <<ArrayGet(r.numbers, 0).value>>)
                  ELSE ToolResult(FALSE, RandomNumberManyTemplate,
                                  r.numbers),
              numbers |-> r.numbers, draws |-> r.used]

CallRandomNumber ==
    /\ call = NoCall
    /\ \E min \in IntArgs, max \in IntArgs, count \in ToolCounts :
           \E ds \in RandomNumberDraws(min, max, count) :
               call' = [fn |-> "random-number",
                        arg |-> [min |-> min, max |-> max, count |-> count,
                                 ds |-> ds],
                        ret |-> randomNumber(min, max, count, ds)]
    /\ UNCHANGED <<handlerVars, sessionVars>>

\* 10 to the power p
RECURSIVE Pow10(_)
Pow10(p) == IF p <= 0 THEN 1 ELSE 10 * Pow10(p - 1)

\* k times a 32-bit value (the high part is left unreduced)
Scale(u, k) ==
    [hi |-> k * u.hi + ((k * u.lo) \div 65536), lo |-> (k * u.lo) % 65536]

\* the sum of two such values
Plus(a, b) ==
    [hi |-> a.hi + b.hi + ((a.lo + b.lo) \div 65536),
     lo |-> (a.lo + b.lo) % 65536]

MaxPrecision == 2

\* (2q - 1) * den <= 2K * num, strictly so for a negative x: q is not
\* above the rounding of t = K * num / den
NotAbove(r, K, negative, q) ==
    LET lhs == Scale(r.den, 2 * q)
        rhs == Plus(Scale(r.num, 2 * K), r.den)
    IN  IF negative THEN U32Less(lhs, rhs) ELSE ~U32Less(rhs, lhs)

\* the largest q in lo..hi that is not above it (lo is not)
RECURSIVE LargestNotAbove(_, _, _, _, _)
LargestNotAbove(r, K, negative, lo, hi) ==
    IF lo = hi THEN lo
    ELSE LET mid == (lo + hi + 1) \div 2
         IN  IF NotAbove(r, K, negative, mid)
             THEN LargestNotAbove(r, K, negative, mid, hi)
             ELSE LargestNotAbove(r, K, negative, lo, mid - 1)

\* Number(x.toFixed(precision)) of x = min + (num / den) * span with
\* span > 0: the multiple n / 10^precision nearest to x, the one farther
\* from zero at a tie.  n = min * 10^precision + q, where q rounds
\* t = K * num / den and K = span * 10^precision.
toFixed(r, precision) ==
    LET K == r.span * Pow10(precision)
        M == (0 - r.min) * Pow10(precision)
        negative == r.min < 0 /\ U32Less(Scale(r.num, K), Scale(r.den, M))
    IN  [n |-> r.min * Pow10(precision)
                   + LargestNotAbove(r, K, negative, 0, K),
         scale |-> Pow10(precision)]

RandomDecimalErrorTemplate ==
    "Error: minimum value must be less than maximum value"

RandomDecimalSingleTemplate ==
    "Cryptographically secure random decimal: ${numbers[0]}"

RandomDecimalManyTemplate ==
    "Cryptographically secure random decimals: ${numbers.join(\", \")}"

\* the for loop of random-decimal; bufs are the buffers the successive
\* randomBytes(4) calls of secureRandomFloat return
RECURSIVE RandomDecimalLoop(_, _, _, _, _, _, _)
RandomDecimalLoop(i, count, min, max, precision, numbers, bufs) ==
    IF i < count
    THEN IF i + 1 > Len(bufs)
         THEN [numbers |-> numbers, used |-> i, starved |-> TRUE]
         ELSE LET randomValue == secureRandomFloat(min, max, bufs[i + 1])
              IN  RandomDecimalLoop(i + 1, count, min, max, precision,
                                    Push(numbers,
                                         toFixed(randomValue, precision)),
                                    bufs)
    ELSE [numbers |-> numbers, used |-> i, starved |-> FALSE]

\* the buffers randomBytes(4) returns to the random-decimal calls: the
\* least and the greatest draw, one in the middle, one just below the
\* greatest
ToolBuffers ==
    {<<0, 0, 0, 0>>, <<128, 0, 0, 0>>, <<255, 255, 255, 0>>,
     <<255, 255, 255, 255>>}

\* the buffer sequences a run of the random-decimal loop consumes exactly:
\* one buffer for each i in 0..count-1
RandomDecimalDraws(min, max, precision, count) ==
    IF min >= max THEN {<<>>}
    ELSE [1..(IF count > 0 THEN count ELSE 0) -> ToolBuffers]

\* the random-decimal handler
randomDecimal(min, max, precision, count, bufs) ==
    IF min >= max
    THEN [result |-> ToolResult(TRUE, RandomDecimalErrorTemplate, <<>>),
          numbers |-> <<>>, draws |-> 0]
    ELSE LET r == RandomDecimalLoop(0, count, min, max, precision, <<>>,
                                    bufs)
         IN  [result |->
                  IF count = 1
                  THEN ToolResult(FALSE, RandomDecimalSingleTemplate,
                                  <<ArrayGet(r.numbers, 0).value>>)
                  ELSE ToolResult(FALSE, RandomDecimalManyTemplate,
                                  r.numbers),
              numbers |-> r.numbers, draws |-> r.used]

PrecisionArgs == 0..MaxPrecision

CallRandomDecimal ==
    /\ call = NoCall
    /\ \E min \in IntArgs, max \in IntArgs, precision \in PrecisionArgs,
          count \in ToolCounts :
           \E bufs \in RandomDecimalDraws(min, max, precision, count) :
               call' = [fn |-> "random-decimal",
                        arg |-> [min |-> min, max |-> max,
                                 precision |-> precision, count |-> count,
                                 randomBytes |-> bufs],
                        ret |-> randomDecimal(min, max, precision, count,
                                              bufs)]
    /\ UNCHANGED <<handlerVars, sessionVars>>

RandomChoiceEmptyTemplate == "Error: cannot pick from an empty list"

RandomChoiceTooManyTemplate ==
    "Error: cannot pick ${count} unique items from a list of ${items.length} items"

RandomChoiceSingleTemplate ==
    "Cryptographically secure random choice: ${choices[0]}"

RandomChoiceManyTemplate ==
    "Cryptographically secure random choices: ${choices.join(\", \")}"

\* Array.prototype.indexOf: the first index holding x, -1 when none does
indexOf(arr, x) ==
    IF \E k \in DOMAIN arr : arr[k] = x
    THEN (CHOOSE k \in DOMAIN arr :
              arr[k] = x /\ \A k2 \in 1..(k - 1) : arr[k2] # x) - 1
    ELSE 0 - 1

splice_none(arr, start, deleteCount) == arr

\* Array.prototype.splice(start, deleteCount): the array left; a negative
\* start counts from the end
splice(arr, start, deleteCount) ==
    LET from == IF start < 0
                THEN (IF Len(arr) + start < 0 THEN 0 ELSE Len(arr) + start)
                ELSE (IF start > Len(arr) THEN Len(arr) ELSE start)
        n == IF deleteCount < 0 THEN 0
             ELSE IF deleteCount > Len(arr) - from THEN Len(arr) - from
             ELSE deleteCount
    IN  SubSeq(arr, 1, from) \o SubSeq(arr, from + n + 1, Len(arr))

\* the for loop of random-choice; ds are the indices the successive
\* secureRandomChoice calls draw.  pools lists the length of availableItems
\* at each call; threw says secureRandomChoice was called on a pool from
\* which it cannot draw.
RECURSIVE RandomChoiceLoop(_, _, _, _, _, _, _)
RandomChoiceLoop(i, count, allowDuplicates, choices, availableItems, pools, ds) ==
    LET here == [choices |-> choices, availableItems |-> availableItems,
                 pools |-> pools, used |-> i, starved |-> FALSE,
                 threw |-> FALSE]
    IN
    IF i < count
    THEN IF secureRandomChoice(availableItems) = {}
         THEN [here EXCEPT !.threw = TRUE,
                           !.pools = Push(pools, Len(availableItems))]
         ELSE IF i + 1 > Len(ds)
                  \/ ~\E r \in secureRandomChoice(availableItems) :
                          r.index = ds[i + 1]
         THEN [here EXCEPT !.starved = TRUE]
         ELSE LET choice == (CHOOSE r \in secureRandomChoice(availableItems) :
                                 r.index = ds[i + 1]).element.value
                  index == indexOf(availableItems, choice)
              IN  RandomChoiceLoop(i + 1, count, allowDuplicates,
                                   Push(choices, choice),
                                   IF ~allowDuplicates
                                   THEN splice(availableItems, index, 1)
                                   ELSE availableItems,
                                   Push(pools, Len(availableItems)), ds)
    ELSE here

MaxChoiceCount == MaxArrayLen + 1

\* the index sequences a run of the random-choice loop consumes exactly
RandomChoiceDraws(items, count, allowDuplicates) ==
    IF items = <<>> \/ (~allowDuplicates /\ count > Len(items)) THEN {<<>>}
    ELSE {ds \in UNION {[1..k -> 0..(Len(items) - 1)] :
                           k \in 0..(IF count > 0 THEN count ELSE 0)} :
             LET r == RandomChoiceLoop(0, count, allowDuplicates, <<>>,
                                       items, <<>>, ds)
             IN  ~r.starved /\ r.used = Len(ds)}

\* the random-choice handler
randomChoice(items, count, allowDuplicates, ds) ==
    IF Len(items) = 0
    THEN [result |-> ToolResult(TRUE, RandomChoiceEmptyTemplate, <<>>),
          choices |-> <<>>, pools |-> <<>>, draws |-> 0, threw |-> FALSE]
    ELSE IF ~allowDuplicates /\ count > Len(items)
    THEN [result |-> ToolResult(TRUE, RandomChoiceTooManyTemplate,
                                <<count, Len(items)>>),
          choices |-> <<>>, pools |-> <<>>, draws |-> 0, threw |-> FALSE]
    ELSE LET r == RandomChoiceLoop(0, count, allowDuplicates, <<>>, items,
                                   <<>>, ds)
         IN  [result |->
                  IF count = 1
                  THEN ToolResult(FALSE, RandomChoiceSingleTemplate,
                                  <<ArrayGet(r.choices, 0).value>>)
                  ELSE ToolResult(FALSE, RandomChoiceManyTemplate,
                                  r.choices),
              choices |-> r.choices, pools |-> r.pools, draws |-> r.used,
              threw |-> r.threw]

ChoiceCounts == (0 - 1)..MaxChoiceCount

CallRandomChoice ==
    /\ call = NoCall
    /\ \E items \in Arrays, count \in ChoiceCounts,
          allowDuplicates \in BOOLEAN :
           \E ds \in RandomChoiceDraws(items, count, allowDuplicates) :
               call' = [fn |-> "random-choice",
                        arg |-> [items |-> items, count |-> count,
                                 allowDuplicates |-> allowDuplicates,
                                 ds |-> ds],
                        ret |-> randomChoice(items, count, allowDuplicates,
                                             ds)]
    /\ UNCHANGED <<handlerVars, sessionVars>>

-----------------------------------------------------------------------------
(* server: the handler of the wordlist resource *)

MissingFilenameTemplate ==
    "Error: Missing filename. Available wordlists: short_wordlist_unique_prefixes.txt, short_wordlist.txt, large_wordlist.txt, original_reinhold_wordlist.txt"

InvalidWordlistTemplate ==
    "Error: Invalid wordlist \"${filename}\".Available wordlists: ${validWordlists.join(\", \")}"

ContentTemplate == "${content}"

ReadFailedTemplate == "Error reading wordlist: ${error.message}"

validWordlists ==
    <<"short_wordlist_unique_prefixes.txt", "short_wordlist.txt",
      "large_wordlist.txt", "original_reinhold_wordlist.txt">>

\* Array.prototype.includes on an array of strings
includes(arr, v) == v.type = "string" /\ \E k \in DOMAIN arr : arr[k] = v.str

\* a resource result: its text, the paths handed to readFileSync, and
\* whether the handler threw
ResourceResult(template, value, reads) ==
    [template |-> template, value |-> value, reads |-> reads,
     threw |-> FALSE]

wordlistResource_anyName(filename, f) ==
    IF Falsy(filename)
    THEN ResourceResult(MissingFilenameTemplate, <<>>, <<>>)
    ELSE IF f.exists
    THEN ResourceResult(ContentTemplate, f.data, <<filename.str>>)
    ELSE ResourceResult(ReadFailedTemplate, ReadErrorMessage,
                        <<filename.str>>)

\* the handler, f being what readFileSync finds at the path of filename
wordlistResource(filename, f) ==
    IF Falsy(filename)
    THEN ResourceResult(MissingFilenameTemplate, <<>>, <<>>)
    ELSE IF ~includes(validWordlists, filename)
    THEN ResourceResult(InvalidWordlistTemplate, filename.str, <<>>)
    ELSE IF f.exists
    THEN ResourceResult(ContentTemplate, f.data, <<filename.str>>)
    ELSE ResourceResult(ReadFailedTemplate, ReadErrorMessage,
                        <<filename.str>>)

CallWordlistResource ==
    /\ call = NoCall
    /\ \E filename \in FilenameArgs, f \in HandlerFiles :
           call' = [fn |-> "wordlist-resource",
                    arg |-> [filename |-> filename, file |-> f],
                    ret |-> wordlistResource(filename, f)]
    /\ UNCHANGED <<handlerVars, sessionVars>>

InitTools == HandlerIdle /\ SessionIdle /\ call = NoCall

NextTools ==
    \/ CallRollDice
    \/ CallRandomNumber
    \/ CallRandomDecimal
    \/ CallRandomChoice
    \/ CallWordlistResource
    \/ CallReturned

SpecTools == InitTools /\ [][NextTools]_vars

-----------------------------------------------------------------------------
(* Claims about the tools, checked under SpecTools *)

\* the sum of the numbers of a list
RECURSIVE SumOf(_)
SumOf(arr) == IF arr = <<>> THEN 0 ELSE Head(arr) + SumOf(Tail(arr))

\* the number the text of a roll-dice result gives as the result of the
\* roll
ReportedRoll(res) ==
    IF res.template = RollDiceSingleTemplate THEN res.values.roll
    ELSE res.values.finalTotal

\* C22 (as claimed): for sides >= 2 and every count, roll-dice draws each
\* die in 1..sides and the result it reports is the sum of all rolls plus
\* the modifier, also when count is 1 and the modifier is not zero;
\* sides < 2 gives an error result with no die rolled.
C22_RollDiceReportsTotal ==
    call.fn = "roll-dice" =>
        IF call.arg.sides < 2
        THEN /\ call.ret.result.isError
             /\ call.ret.draws = 0
             /\ call.ret.rolls = <<>>
        ELSE /\ ~call.ret.result.isError
             /\ call.ret.draws = Len(call.ret.rolls)
             /\ \A k \in DOMAIN call.ret.rolls :
                    call.ret.rolls[k] \in 1..call.arg.sides
             /\ ReportedRoll(call.ret.result)
                    = SumOf(call.ret.rolls) + call.arg.modifier

\* C23: in random-choice with allowDuplicates = false and count <=
\* items.length, each value is returned at most as many times as it occurs
\* in items, the pool handed to secureRandomChoice shrinks by exactly one
\* per pick and is never empty; count > items.length and an empty items
\* list are rejected with an error before any pick.
C23_UniqueChoices ==
    call.fn = "random-choice" =>
        /\ call.arg.items = <<>> =>
               /\ call.ret.result.isError
               /\ call.ret.draws = 0
               /\ call.ret.pools = <<>>
        /\ (~call.arg.allowDuplicates
                /\ call.arg.count > Len(call.arg.items)) =>
               /\ call.ret.result.isError
               /\ call.ret.draws = 0
               /\ call.ret.pools = <<>>
        /\ (/\ ~call.arg.allowDuplicates
            /\ call.arg.items # <<>>
            /\ call.arg.count <= Len(call.arg.items)) =>
               /\ ~call.ret.result.isError
               /\ ~call.ret.threw
               /\ Len(call.ret.choices)
                      = (IF call.arg.count > 0 THEN call.arg.count ELSE 0)
               /\ call.ret.draws = Len(call.ret.choices)
               /\ Len(call.ret.pools) = Len(call.ret.choices)
               /\ \A e \in Elements :
                      Occurrences(call.ret.choices, e)
                          <= Occurrences(call.arg.items, e)
               /\ \A k \in DOMAIN call.ret.pools :
                      /\ call.ret.pools[k] = Len(call.arg.items) - (k - 1)
                      /\ call.ret.pools[k] > 0

\* C23 witness: all three items of a list with a repeated value are
\* picked, the repeated value by its second occurrence first
C23_Witness ==
    /\ call.fn = "random-choice"
    /\ ~call.arg.allowDuplicates
    /\ call.arg.items = <<"a", "b", "a">>
    /\ call.arg.count = 3
    /\ call.arg.ds = <<2, 0, 0>>
    /\ call.ret.choices = <<"a", "b", "a">>
    /\ call.ret.pools = <<3, 2, 1>>

\* C24: random-number rejects min > max with an error result before any
\* number is drawn; for min <= max, min = max included, it returns exactly
\* count numbers (none for a count below 1), each an integer in the closed
\* range min..max.
C24_RandomNumberInRange ==
    call.fn = "random-number" =>
        IF call.arg.min > call.arg.max
        THEN /\ call.ret.result.isError
             /\ call.ret.result.template = RandomNumberErrorTemplate
             /\ call.ret.draws = 0
             /\ call.ret.numbers = <<>>
        ELSE /\ ~call.ret.result.isError
             /\ Len(call.ret.numbers)
                    = (IF call.arg.count > 0 THEN call.arg.count ELSE 0)
             /\ call.ret.draws = Len(call.ret.numbers)
             /\ \A k \in DOMAIN call.ret.numbers :
                    call.ret.numbers[k] \in call.arg.min..call.arg.max
             /\ call.arg.count >= 1 =>
                    call.ret.result.values = call.ret.numbers

\* C24 witness: two numbers between -1 and 1 are returned, both ends of
\* the range among them
C24_Witness ==
    /\ call.fn = "random-number"
    /\ call.arg.min = 0 - 1
    /\ call.arg.max = 1
    /\ call.arg.count = 2
    /\ ~call.ret.result.isError
    /\ call.ret.result.values = <<1, 0 - 1>>

\* the number n / scale is at least min
DecimalAtLeast(d, min) == d.n >= min * d.scale

\* the number n / scale is less than max
DecimalBelow(d, max) == d.n < max * d.scale

\* C25 (as claimed): random-decimal rejects min >= max with an error, and
\* for min < max every number it reports, after rounding to the requested
\* precision, is >= min and strictly less than max.
C25_RandomDecimalBelowMax ==
    call.fn = "random-decimal" =>
        IF call.arg.min >= call.arg.max
        THEN /\ call.ret.result.isError
             /\ call.ret.draws = 0
        ELSE /\ ~call.ret.result.isError
             /\ \A k \in DOMAIN call.ret.numbers :
                    /\ DecimalAtLeast(call.ret.numbers[k], call.arg.min)
                    /\ DecimalBelow(call.ret.numbers[k], call.arg.max)

\* the filename is one of the four canonical wordlist identifiers
Canonical(filename) == filename.type = "string" /\ filename.str \in Wordlists

\* C26: the wordlist resource handler reads a file only when the requested
\* filename is one of the four canonical wordlist identifiers; for a
\* missing filename or any other name it returns an error text without
\* touching the file system, and a read failure is returned as an error
\* text, never thrown.
C26_ResourceReadsCanonicalOnly ==
    call.fn = "wordlist-resource" =>
        /\ ~call.ret.threw
        /\ call.ret.reads # <<>> =>
               /\ Canonical(call.arg.filename)
               /\ call.ret.reads = <<call.arg.filename.str>>
        /\ Falsy(call.arg.filename) =>
               /\ call.ret.template = MissingFilenameTemplate
               /\ call.ret.reads = <<>>
        /\ (~Falsy(call.arg.filename) /\ ~Canonical(call.arg.filename)) =>
               /\ call.ret.template = InvalidWordlistTemplate
               /\ call.ret.reads = <<>>
        /\ (Canonical(call.arg.filename) /\ ~call.arg.file.exists) =>
               /\ call.ret.template = ReadFailedTemplate
               /\ call.ret.value = ReadErrorMessage
        /\ (Canonical(call.arg.filename) /\ call.arg.file.exists) =>
               /\ call.ret.template = ContentTemplate
               /\ call.ret.value = call.arg.file.data

\* C26 witness: a canonical wordlist that cannot be read comes back as an
\* error text
C26_Witness ==
    /\ call.fn = "wordlist-resource"
    /\ call.arg.filename = JsString("large_wordlist.txt")
    /\ ~call.arg.file.exists
    /\ call.ret.reads = <<"large_wordlist.txt">>
    /\ call.ret.template = ReadFailedTemplate
    /\ ~call.ret.threw

-----------------------------------------------------------------------------
(* C27 to C29 *)

\* the handler makes diceCount draws for each roll it has generated; a
\* successful invocation has generated one roll per word, and one that
\* failed at its k-th roll has generated k rolls and looked up each
DrawsMatchRolls ==
    /\ pc \in {"loop", "done"} => draws = diceCount * Len(diceRolls)
    /\ Succeeded =>
           /\ Len(diceRolls) = (IF args.words > 0 THEN args.words ELSE 0)
           /\ draws = Len(diceRolls) * getDiceCount(JsString(args.wordlist)).num
    /\ (pc = "done" /\ result.template = WordNotFoundTemplate) =>
           /\ Len(diceRolls) = loopI + 1
           /\ Len(diceRolls) <= args.words
           /\ Len(passphraseWords) = Len(diceRolls) - 1
           /\ draws = Len(diceRolls) * getDiceCount(JsString(args.wordlist)).num

\* a step draws nothing or the dice of one more roll, and nothing once the
\* invocation is done
DrawsOnlyForARoll ==
    /\ draws' > draws =>
           /\ pc = "loop"
           /\ draws' = draws + diceCount
           /\ Len(diceRolls') = Len(diceRolls) + 1
    /\ pc = "done" =>
           /\ draws' <= draws
           /\ Len(diceRolls') <= Len(diceRolls)
           /\ Len(passphraseWords') <= Len(passphraseWords)

\* C27, checked under Spec: in any passphrase invocation the number of
\* dice draws is the dice count times the number of rolls generated; a
\* successful invocation with word count n has made n times the dice count
\* draws (none for n below 1), and one that fails at its k-th roll has
\* made k times the dice count draws and makes no draw or lookup after it.
C27_DrawsPerRoll == []DrawsMatchRolls /\ [][DrawsOnlyForARoll]_vars

\* C27 witness: the second roll has no word; eight dice were drawn
C27_Witness ==
    /\ pc = "done"
    /\ result.template = WordNotFoundTemplate
    /\ args.wordlist = "short_wordlist.txt"
    /\ args.words = 2
    /\ Len(diceRolls) = 2
    /\ Len(passphraseWords) = 1
    /\ draws = 8

\* the locals of the handler when it enters its loop
LoopEntry ==
    [i |-> 0, passphraseWords |-> <<>>, diceRolls |-> <<>>,
     returned |-> FALSE, result |-> NoResult]

\* some rolls besides the keys of the map
OtherRolls == UNION {[1..n -> {"1", "6"}] : n \in 1..2}

\* C28, checked under SpecLoad: every map returned by loadWordlist has
\* only non-empty keys and non-empty words, so the handler's test for a
\* missing word is true exactly when the roll is not a key of the map: an
\* iteration whose roll is a key does not return the WordNotFound error.
C28_MissingWordMeansNoKey ==
    (LoadDone /\ ~call.ret.threw) =>
        /\ \A key \in DOMAIN call.ret.map :
               key # <<>> /\ call.ret.map[key] # <<>>
        /\ \A roll \in DOMAIN call.ret.map \cup OtherRolls :
               /\ NoWord(MapGet(call.ret.map, roll))
                      <=> roll \notin DOMAIN call.ret.map
               /\ LoopBody(NoArgs, call.ret.map, LoopEntry, roll).returned
                      <=> roll \notin DOMAIN call.ret.map

\* C28 witness: a line with an empty word before a line with the same key
\* and a word; the map holds the key with the word
C28_Witness ==
    /\ LoadDone
    /\ ~call.ret.threw
    /\ call.arg.data = <<"1", TAB, NL, "1", TAB, "a">>
    /\ DOMAIN call.ret.map = {<<"1">>}
    /\ call.ret.map[<<"1">>] = <<"a">>
    /\ ~LoopBody(NoArgs, call.ret.map, LoopEntry, <<"1">>).returned

\* C29, checked under Spec: an invocation with word count 0 on a readable
\* wordlist makes no dice draw and returns a success result with an empty
\* passphrase and an empty rolls list, whatever the wordlist contains,
\* an empty map included.
C29_ZeroWordsSucceeds ==
    (args.words = 0 /\ file.exists /\ pc \in {"loop", "done"}) =>
        /\ draws = 0
        /\ diceRolls = <<>>
        /\ passphraseWords = <<>>
        /\ pc = "done" =>
               /\ ~result.isError
               /\ result.template = SuccessTemplate
               /\ result.words = 0
               /\ result.passphrase = <<>>
               /\ result.rollsDisplay = <<>>

\* C29 witness: zero words from an empty wordlist file
C29_Witness ==
    /\ pc = "done"
    /\ args.words = 0
    /\ file = File(<<>>)
    /\ wordMap = EmptyMap
    /\ draws = 0
    /\ ~result.isError
    /\ result.template = SuccessTemplate
    /\ result.passphrase = <<>>
    /\ result.rollsDisplay = <<>>

-----------------------------------------------------------------------------
(* C30, checked under SpecCrypto *)

\* n!
RECURSIVE Factorial(_)
Factorial(n) == IF n <= 1 THEN 1 ELSE n * Factorial(n - 1)

\* the orderings of an array
Orderings(array) ==
    LET n == Len(array)
    IN  {[k \in 1..n |-> array[p[k]]] :
            p \in {f \in [1..n -> 1..n] : \A a, b \in 1..n : f[a] = f[b] => a = b}}

\* the array secureArrayShuffle returns for the draws ds
ShuffledBy(array, ds) ==
    LET r == secureArrayShuffle(<<array>>, 1, ds) IN r.heap[r.ref]

\* no element occurs twice
Distinct(array) ==
    \A a, b \in DOMAIN array : array[a] = array[b] => a = b

\* C30: for an array of n distinct elements secureArrayShuffle draws
\* exactly one index j in 0..i for each i from n-1 down to 1, and the map
\* from draw sequences to results is a bijection onto the n! orderings:
\* every ordering of the input is produced by exactly one sequence of
\* draws.
C30_ShuffleBijection ==
    (call.fn = "secureArrayShuffle" /\ Distinct(call.arg.array)) =>
        LET array == call.arg.array
            n == Len(array)
            all == ShuffleDraws(n)
        IN  /\ Len(call.arg.ds) = (IF n > 1 THEN n - 1 ELSE 0)
            /\ \A k \in DOMAIN call.arg.ds : call.arg.ds[k] \in 0..(n - k)
            /\ all = {ds \in [1..(IF n > 1 THEN n - 1 ELSE 0) -> 0..n] :
                         \A k \in DOMAIN ds : ds[k] \in 0..(n - k)}
            /\ Cardinality(all) = Factorial(n)
            /\ {ShuffledBy(array, ds) : ds \in all} = Orderings(array)
            /\ \A o \in Orderings(array) :
                   Cardinality({ds \in all : ShuffledBy(array, ds) = o}) = 1
            /\ call.ret.shuffled = ShuffledBy(array, call.arg.ds)

\* C30 witness: the draws 0 and 1 reverse an array of three distinct
\* elements
C30_Witness ==
    /\ call.fn = "secureArrayShuffle"
    /\ call.arg.array = <<"a", "b", "c">>
    /\ call.arg.ds = <<0, 1>>
    /\ call.ret.shuffled = <<"c", "b", "a">>

=============================================================================
